---- MODULE Spec2Model ----
(***************************************************************************)
(* configurationlib.Instance: a configuration Document loaded from a file, *)
(* mutated through __setitem__, persisted by save(), read by get() and     *)
(* __getitem__, and replaced by the hot-reloading monitor thread.          *)
(*                                                                         *)
(* Strings are sequences of one-character strings, so that key.split(".")  *)
(* is computed.  A Document (a Python dict of nested dicts) is a function  *)
(* from the paths of its entries to MapV (the entry is a dict) or to a     *)
(* scalar.  Python object identity is kept by a heap of Documents indexed  *)
(* by references: self.config is a reference.                              *)
(***************************************************************************)
EXTENDS Integers, Sequences, FiniteSets, TLC

\* ---------------------------------------------------------------- bounds
\* modification timestamps range over 1..MaxTime
MaxTime == 2
\* number of writes or deletions of the file by other processes
MaxExternal == 1
\* number of foreground calls after construction while the monitor thread may run
MaxOps == 1

\* ---------------------------------------------------------------- values
MapV == "dict"

EmptyDoc == [p \in {} |-> MapV]

IsPrefix(q, p) == Len(q) <= Len(p) /\ SubSeq(p, 1, Len(q)) = q

\* isinstance(value, dict) for the value at path p of Document d
IsDict(d, p) == p = <<>> \/ (p \in DOMAIN d /\ d[p] = MapV)

\* the dict found at path p, as a Document of its own
SubDoc(d, p) ==
    [q \in {SubSeq(x, Len(p) + 1, Len(x)) : x \in {y \in DOMAIN d : IsPrefix(p, y) /\ y # p}}
        |-> d[p \o q]]

\* current_level[k] = v, where q is the path of current_level followed by k
Assign(d, q, v) ==
    [p \in {x \in DOMAIN d : ~IsPrefix(q, x)} \cup {q} |-> IF p = q THEN v ELSE d[p]]

\* key.split(".")
RECURSIVE Split(_)
Split(s) ==
    IF \A i \in 1..Len(s) : s[i] # "."
    THEN <<s>>
    ELSE LET i == CHOOSE n \in 1..Len(s) : s[n] = "." /\ \A j \in 1..(n - 1) : s[j] # "."
         IN  <<SubSeq(s, 1, i - 1)>> \o Split(SubSeq(s, i + 1, Len(s)))

\* what a lookup hands back: a value, None, or an exception
NoneResult == [exc |-> "none", kind |-> "None", scalar |-> "", dict |-> EmptyDoc]

ExcResult(e) == [exc |-> e, kind |-> "None", scalar |-> "", dict |-> EmptyDoc]

ValueAt(d, p) ==
    IF IsDict(d, p)
    THEN [exc |-> "none", kind |-> "dict", scalar |-> "", dict |-> SubDoc(d, p)]
    ELSE [exc |-> "none", kind |-> "scalar", scalar |-> d[p], dict |-> EmptyDoc]

\* a __setitem__ that puts a new dict at every level it descends: current_level[k] = {}
\* without the test of line 177
RECURSIVE SetWalkFresh(_, _, _, _)
SetWalkFresh(d, level, keys, value) ==
    IF Len(keys) = 1
    THEN Assign(d, Append(level, keys[1]), value)
    ELSE SetWalkFresh(Assign(d, Append(level, keys[1]), MapV), Append(level, keys[1]), Tail(keys), value)

\* the loops of __setitem__: descend keys[:-1], creating or replacing levels, then assign
RECURSIVE SetWalk(_, _, _, _)
SetWalk(d, level, keys, value) ==
    IF Len(keys) = 1
    THEN Assign(d, Append(level, keys[1]), value)
    ELSE LET q == Append(level, keys[1])
             d1 == IF q \notin DOMAIN d \/ d[q] # MapV THEN Assign(d, q, MapV) ELSE d
         IN  SetWalk(d1, q, Tail(keys), value)

SetItem(d, key, value) == SetWalk(d, <<>>, Split(key), value)

\* the loop of get(*keys)
RECURSIVE GetWalk(_, _, _)
GetWalk(d, level, keys) ==
    IF keys = <<>>
    THEN ValueAt(d, level)
    ELSE IF IsDict(d, level) /\ Append(level, keys[1]) \in DOMAIN d
         THEN GetWalk(d, Append(level, keys[1]), Tail(keys))
         ELSE NoneResult

Get(d, keys) == GetWalk(d, <<>>, keys)

\* the loop of __getitem__: current_level = current_level.get(k); isNone says that
\* current_level is None, and .get on None or on a scalar raises AttributeError
RECURSIVE GetItemWalk(_, _, _, _)
GetItemWalk(d, isNone, level, keys) ==
    IF keys = <<>>
    THEN IF isNone THEN NoneResult ELSE ValueAt(d, level)
    ELSE IF isNone \/ ~IsDict(d, level)
         THEN ExcResult("AttributeError")
         ELSE LET q == Append(level, keys[1])
              IN  IF q \in DOMAIN d
                  THEN GetItemWalk(d, FALSE, q, Tail(keys))
                  ELSE GetItemWalk(d, TRUE, <<>>, Tail(keys))

GetItem(d, key) == GetItemWalk(d, FALSE, <<>>, Split(key))

\* ---------------------------------------------------------------- codecs
\* the format identifiers given to the constructor; "XML" is one the code does not know
Formats == {"JSON", "ENV", "XML"}

Supported == {"JSON", "ENV"}

UnsupportedExc == "ValueError: Unsupported format"

\* a file of zero bytes, and a text that is neither JSON nor KEY=VALUE lines
EmptyContent == [kind |-> "empty", doc |-> EmptyDoc]

Garbage == [kind |-> "garbage", doc |-> EmptyDoc]

\* json.dump(self.config, f, indent=4)
SaveJSON(d) == [kind |-> "json", doc |-> d]

\* for key, value in self.config.items(): f.write(f"{key}={value}\n"): only the top
\* level is written, a nested dict as the text of its str(); no key writes no byte
SaveENV(d) ==
    LET top == {p \in DOMAIN d : Len(p) = 1}
    IN  IF top = {}
        THEN EmptyContent
        ELSE [kind |-> "env",
              doc  |-> [p \in top |-> IF d[p] = MapV THEN ToString(SubDoc(d, p)) ELSE d[p]]]

\* the branch of save() taken for a supported format
Serialize(fmt, d) == IF fmt = "JSON" THEN SaveJSON(d) ELSE SaveENV(d)

\* a load() that answers a text it cannot parse with an empty Document
ParseOrEmpty(fmt, c) ==
    IF fmt \in Supported
    THEN [ok |-> TRUE, doc |-> IF c.kind \in {"json", "env"} THEN c.doc ELSE EmptyDoc, exc |-> "none"]
    ELSE [ok |-> FALSE, doc |-> EmptyDoc, exc |-> UnsupportedExc]

\* the branch of load() taken once the file is open: the parsed Document or the exception
Parse(fmt, c) ==
    CASE fmt = "JSON" ->
            IF c.kind = "json"
            THEN [ok |-> TRUE, doc |-> c.doc, exc |-> "none"]
            ELSE [ok |-> FALSE, doc |-> EmptyDoc, exc |-> "JSONDecodeError"]
      [] fmt = "ENV" ->
            IF c.kind = "env" THEN [ok |-> TRUE, doc |-> c.doc, exc |-> "none"]
            ELSE IF c.kind = "empty" THEN [ok |-> TRUE, doc |-> EmptyDoc, exc |-> "none"]
            ELSE [ok |-> FALSE, doc |-> EmptyDoc, exc |-> "ValueError: not enough values to unpack"]
      [] OTHER -> [ok |-> FALSE, doc |-> EmptyDoc, exc |-> UnsupportedExc]

\* ---------------------------------------------------------------- inputs
Times == 1..MaxTime

KeyA == <<"a">>

DottedAB == <<"a", ".", "b">>

DottedABC == <<"a", ".", "b", ".", "c">>

\* the key strings handed to __setitem__ and __getitem__
SetKeys == {KeyA, DottedABC}

GetItemKeys == {DottedAB, DottedABC}

\* the key tuples handed to get(*keys)
GetKeys == {<<>>, <<<<"a">>, <<"b">>, <<"c">>>>}

SetValues == {"v1"}

\* the key and the value of save()[key] = value
AssignKeys == {KeyA}

AssignValues == {"v2"}

\* the Documents other processes write to the file
ExternalDocs == {[p \in {<<KeyA>>} |-> "x1"]}

ExternalContents(fmt) ==
    {Garbage} \cup {Serialize(IF fmt \in Supported THEN fmt ELSE "JSON", d) : d \in ExternalDocs}

\* ---------------------------------------------------------------- state
VARIABLES
    format,       \* self.format
    hot_reloading, \* self.hot_reloading
    fileExists,   \* os.path.exists(self.file)
    fileContent,  \* the bytes of the file
    fileMtime,    \* os.path.getmtime(self.file)
    heap,         \* the dict objects, by reference
    config,       \* self.config, a reference (0 before __init__ ran)
    last_modified_time,  \* self.last_modified_time
    pc,           \* the position of the foreground thread ("fg") and of monitor ("w")
    content,      \* per thread, what load() read from the open file
    current_modified_time,         \* monitor's current_modified_time
    wLast,        \* the self.last_modified_time monitor compared it with (line 35)
    wExc,         \* the exception that ended the monitor thread, "none" while it lives
    fgOp,         \* the call the foreground is in, or made last
    fgKey,        \* its key string (__setitem__, __getitem__), while it runs
    fgKeys,       \* its key tuple (get), while it runs
    fgVal,        \* the value given to __setitem__, while it runs
    fgRef,        \* the dict the foreground call holds (current_level, value), 0 if none
    fgResult,     \* what the last foreground call returned or raised
    extLeft,      \* writes and deletions other processes may still make
    opsLeft       \* calls the foreground may still make

vars == <<format, hot_reloading, fileExists, fileContent, fileMtime, heap, config, last_modified_time, pc, content,
          current_modified_time, wLast, wExc, fgOp, fgKey, fgKeys, fgVal, fgRef, fgResult, extLeft, opsLeft>>

fileVars == <<fileExists, fileContent, fileMtime>>

callVars == <<fgOp, fgKey, fgKeys, fgVal>>

wVars == <<current_modified_time, wLast, wExc>>

Refs == {1, 2, 3}

Threads == {"fg", "w"}

\* a reference no live object has
Alloc(live) == CHOOSE r \in Refs : r \notin live /\ \A s \in Refs : s \notin live => r <= s

\* objects nothing refers to are collected
Gc(h, live) == [r \in Refs |-> IF r \in live THEN h[r] ELSE EmptyDoc]

\* a load() that refills the dict self.config refers to: self.config.clear(), .update(d)
PublishInPlace(h, cfg, held, d) ==
    IF cfg = 0
    THEN [heap |-> [h EXCEPT ![Alloc({held})] = d], config |-> Alloc({held})]
    ELSE [heap |-> [h EXCEPT ![cfg] = d], config |-> cfg]

\* a load() that keeps the Document it holds when it has nothing to put in its place
PublishUnlessEmpty(h, cfg, held, d) ==
    IF d = EmptyDoc /\ cfg # 0
    THEN [heap |-> h, config |-> cfg]
    ELSE LET r == Alloc({cfg, held})
         IN  [heap |-> Gc([h EXCEPT ![r] = d], {r, held}), config |-> r]

\* self.config = <a new dict d>: the reference is replaced, the old object is not touched
Publish(h, cfg, held, d) ==
    LET r == Alloc({cfg, held})
    IN  [heap |-> Gc([h EXCEPT ![r] = d], {r, held}), config |-> r]

\* the calls the foreground makes: one more when no thread runs beside it, so that a
\* call is followed by another
OpsBound(hr) == IF hr THEN MaxOps ELSE MaxOps + 1

Init ==
    /\ format \in Formats
    /\ hot_reloading \in BOOLEAN
    /\ \/ fileExists = FALSE /\ fileContent = EmptyContent /\ fileMtime = 0
       \/ /\ fileExists = TRUE
          /\ fileContent \in ExternalContents(format)
          /\ fileMtime \in Times
    /\ heap = [r \in Refs |-> EmptyDoc]
    /\ config = 0
    /\ last_modified_time = 0
    /\ pc = [t \in Threads |-> IF t = "fg" THEN "new" ELSE "off"]
    /\ content = [t \in Threads |-> EmptyContent]
    /\ current_modified_time = 0
    /\ wLast = 0
    /\ wExc = "none"
    /\ fgOp = "none"
    /\ fgKey = <<>>
    /\ fgKeys = <<>>
    /\ fgVal = ""
    /\ fgRef = 0
    /\ fgResult = NoneResult
    /\ extLeft = MaxExternal
    /\ opsLeft = OpsBound(hot_reloading)

\* ---------------------------------------------------------------- __init__
\* lines 12-17: the fields are set; load() is entered next
Construct ==
    /\ pc["fg"] = "new"
    /\ LET pub == Publish(heap, config, fgRef, EmptyDoc)
       IN  heap' = pub.heap /\ config' = pub.config
    /\ last_modified_time' = 0
    /\ fgOp' = "init"
    /\ pc' = [pc EXCEPT !["fg"] = "load_exists"]
    /\ UNCHANGED <<format, hot_reloading, fileVars, content, wVars, fgKey, fgKeys, fgVal, fgRef,
                   fgResult, extLeft, opsLeft>>

\* lines 20-21: start_hot_reloading() starts the monitor thread
StartHotReloading ==
    /\ pc["fg"] = "init_start"
    /\ pc' = [pc EXCEPT !["fg"] = "idle", !["w"] = IF hot_reloading THEN "sleep" ELSE "off"]
    /\ UNCHANGED <<format, hot_reloading, fileVars, heap, config, last_modified_time, content, wVars, callVars,
                   fgRef, fgResult, extLeft, opsLeft>>

\* ---------------------------------------------------------------- load()
\* where thread t goes when its load() returns, and when it raises: an exception ends
\* the monitor thread, fails the construction, or reaches the caller of load()
LoadReturnPc(t) == IF t = "w" THEN "set_lmt" ELSE IF fgOp = "init" THEN "init_start" ELSE "idle"

LoadRaisePc(t) == IF t = "w" THEN "dead" ELSE IF fgOp = "init" THEN "failed" ELSE "idle"

LoadRaise(t, e) ==
    /\ pc' = [pc EXCEPT ![t] = LoadRaisePc(t)]
    /\ content' = [content EXCEPT ![t] = EmptyContent]
    /\ fgResult' = IF t = "fg" THEN ExcResult(e) ELSE fgResult
    /\ wExc' = IF t = "w" THEN e ELSE wExc
    /\ current_modified_time' = IF t = "w" THEN 0 ELSE current_modified_time
    /\ wLast' = IF t = "w" THEN 0 ELSE wLast

\* line 47, and line 67 when the file does not exist
LoadExists(t) ==
    /\ pc[t] = "load_exists"
    /\ IF fileExists
       THEN /\ pc' = [pc EXCEPT ![t] = "load_getmtime"]
            /\ UNCHANGED <<heap, config>>
       ELSE /\ pc' = [pc EXCEPT ![t] = LoadReturnPc(t)]
            /\ LET pub == Publish(heap, config, fgRef, EmptyDoc)
               IN  heap' = pub.heap /\ config' = pub.config
    /\ UNCHANGED <<format, hot_reloading, fileVars, last_modified_time, content, wVars, callVars, fgRef, fgResult,
                   extLeft, opsLeft>>

\* lines 48-50: the timestamp is recorded before the file is opened
LoadGetMtime(t) ==
    /\ pc[t] = "load_getmtime"
    /\ IF fileExists
       THEN /\ last_modified_time' = fileMtime
            /\ pc' = [pc EXCEPT ![t] = "load_open"]
            /\ UNCHANGED <<content, fgResult, wVars>>
       ELSE /\ LoadRaise(t, "FileNotFoundError")
            /\ UNCHANGED last_modified_time
    /\ UNCHANGED <<format, hot_reloading, fileVars, heap, config, callVars, fgRef, extLeft, opsLeft>>

\* lines 51-65: open the file; an unknown format raises with the file open, a known
\* one reads it
LoadOpen(t) ==
    /\ pc[t] = "load_open"
    /\ IF ~fileExists
       THEN LoadRaise(t, "FileNotFoundError")
       ELSE IF format \notin Supported
            THEN LoadRaise(t, UnsupportedExc)
            ELSE /\ content' = [content EXCEPT ![t] = fileContent]
                 /\ pc' = [pc EXCEPT ![t] = "load_parse"]
                 /\ UNCHANGED <<fgResult, wVars>>
    /\ UNCHANGED <<format, hot_reloading, fileVars, heap, config, last_modified_time, callVars, fgRef, extLeft,
                   opsLeft>>

\* lines 52-63: self.config = <the parsed Document>, assigned only if the parse returns
LoadParse(t) ==
    /\ pc[t] = "load_parse"
    /\ LET r == Parse(format, content[t])
       IN  IF r.ok
           THEN /\ LET pub == Publish(heap, config, fgRef, r.doc)
                   IN  heap' = pub.heap /\ config' = pub.config
                /\ pc' = [pc EXCEPT ![t] = LoadReturnPc(t)]
                /\ content' = [content EXCEPT ![t] = EmptyContent]
                /\ UNCHANGED <<fgResult, wVars>>
           ELSE /\ LoadRaise(t, r.exc)
                /\ UNCHANGED <<heap, config>>
    /\ UNCHANGED <<format, hot_reloading, fileVars, last_modified_time, callVars, fgRef, extLeft, opsLeft>>

LoadStep(t) == LoadExists(t) \/ LoadGetMtime(t) \/ LoadOpen(t) \/ LoadParse(t)

\* ---------------------------------------------------------------- monitor()
\* lines 32-33: after the sleep, os.path.exists(self.file)
WatcherWake ==
    /\ pc["w"] = "sleep"
    /\ pc' = [pc EXCEPT !["w"] = IF fileExists THEN "getmtime" ELSE "sleep"]
    /\ UNCHANGED <<format, hot_reloading, fileVars, heap, config, last_modified_time, content, wVars, callVars,
                   fgRef, fgResult, extLeft, opsLeft>>

\* line 34: os.path.getmtime raises if the file went away; nothing catches it
WatcherGetMtime ==
    /\ pc["w"] = "getmtime"
    /\ IF fileExists
       THEN current_modified_time' = fileMtime /\ pc' = [pc EXCEPT !["w"] = "compare"] /\ UNCHANGED wExc
       ELSE current_modified_time' = 0 /\ pc' = [pc EXCEPT !["w"] = "dead"] /\ wExc' = "FileNotFoundError"
    /\ UNCHANGED <<format, hot_reloading, fileVars, heap, config, last_modified_time, content, wLast, callVars, fgRef,
                   fgResult, extLeft, opsLeft>>

\* a monitor that reloads only a file newer than the one it recorded:
\* current_modified_time > self.last_modified_time
WatcherCompareNewer ==
    /\ pc["w"] = "compare"
    /\ IF current_modified_time > last_modified_time
       THEN pc' = [pc EXCEPT !["w"] = "load_exists"] /\ wLast' = last_modified_time /\ UNCHANGED current_modified_time
       ELSE pc' = [pc EXCEPT !["w"] = "sleep"] /\ current_modified_time' = 0 /\ UNCHANGED wLast
    /\ UNCHANGED <<format, hot_reloading, fileVars, heap, config, last_modified_time, content, wExc, callVars, fgRef,
                   fgResult, extLeft, opsLeft>>

\* line 35: current_modified_time != self.last_modified_time
WatcherCompare ==
    /\ pc["w"] = "compare"
    /\ IF current_modified_time # last_modified_time
       THEN pc' = [pc EXCEPT !["w"] = "load_exists"] /\ wLast' = last_modified_time /\ UNCHANGED current_modified_time
       ELSE pc' = [pc EXCEPT !["w"] = "sleep"] /\ current_modified_time' = 0 /\ UNCHANGED wLast
    /\ UNCHANGED <<format, hot_reloading, fileVars, heap, config, last_modified_time, content, wExc, callVars, fgRef,
                   fgResult, extLeft, opsLeft>>

\* lines 38-40: self.last_modified_time = current_modified_time, after load() returned
WatcherSetLmt ==
    /\ pc["w"] = "set_lmt"
    /\ last_modified_time' = current_modified_time
    /\ current_modified_time' = 0
    /\ wLast' = 0
    /\ pc' = [pc EXCEPT !["w"] = "sleep"]
    /\ UNCHANGED <<format, hot_reloading, fileVars, heap, config, content, wExc, callVars, fgRef,
                   fgResult, extLeft, opsLeft>>

WatcherStep ==
    WatcherWake \/ WatcherGetMtime \/ WatcherCompare \/ LoadStep("w") \/ WatcherSetLmt

\* ---------------------------------------------------------------- foreground calls
CanCall == pc["fg"] = "idle" /\ opsLeft > 0

\* lines 172-181: current_level = self.config, the levels are walked and the value is
\* assigned in the dict read there; save() is entered next
CallSet(key, value) ==
    /\ CanCall
    /\ fgOp' = "set" /\ fgKey' = key /\ fgVal' = value /\ fgKeys' = <<>>
    /\ fgRef' = config
    /\ heap' = [heap EXCEPT ![config] = SetItem(heap[config], key, value)]
    /\ fgResult' = NoneResult
    /\ opsLeft' = opsLeft - 1
    /\ pc' = [pc EXCEPT !["fg"] = "save_open"]
    /\ UNCHANGED <<format, hot_reloading, fileVars, config, last_modified_time, content, wVars, extLeft>>

\* save() called by the application
CallSave ==
    /\ CanCall
    /\ fgOp' = "save" /\ fgKey' = <<>> /\ fgVal' = "" /\ fgKeys' = <<>>
    /\ fgResult' = NoneResult
    /\ opsLeft' = opsLeft - 1
    /\ pc' = [pc EXCEPT !["fg"] = "save_open"]
    /\ UNCHANGED <<format, hot_reloading, fileVars, heap, config, last_modified_time, content, wVars, fgRef, extLeft>>

\* save()[key] = value, as tests.py writes it: save() is called and the value is
\* assigned in the mapping it returns
CallSaveAssign(key, value) ==
    /\ CanCall
    /\ fgOp' = "save_assign" /\ fgKey' = key /\ fgVal' = value /\ fgKeys' = <<>>
    /\ fgResult' = NoneResult
    /\ opsLeft' = opsLeft - 1
    /\ pc' = [pc EXCEPT !["fg"] = "save_open"]
    /\ UNCHANGED <<format, hot_reloading, fileVars, heap, config, last_modified_time, content, wVars, fgRef, extLeft>>

\* a save() that hands back a copy of the Document: return dict(self.config)
ReturnCopy(h, cfg) ==
    LET r == Alloc({cfg})
    IN  [heap |-> [h EXCEPT ![r] = h[cfg]], ref |-> r]

\* lines 142-144: return self.config, the dict itself
ReturnConfig(h, cfg) == [heap |-> h, ref |-> cfg]

\* line 110: open(self.file, "w") creates the file or truncates it
SaveOpen ==
    /\ pc["fg"] = "save_open"
    /\ fileExists' = TRUE
    /\ fileContent' = EmptyContent
    /\ fileMtime' \in Times
    /\ pc' = [pc EXCEPT !["fg"] = "save_write"]
    /\ UNCHANGED <<format, hot_reloading, heap, config, last_modified_time, content, wVars, callVars, fgRef,
                   fgResult, extLeft, opsLeft>>

\* lines 111-144: self.config as it is now is serialized into the open file and
\* returned; an unknown format raises and leaves the file truncated.  A file deleted
\* since the open stays deleted (the bytes go to the unlinked file).
SaveWrite ==
    /\ pc["fg"] = "save_write"
    /\ IF format \notin Supported
       THEN /\ fgResult' = ExcResult(UnsupportedExc)
            /\ UNCHANGED fileVars
       ELSE /\ fgResult' = ValueAt(heap[config], <<>>)
            /\ IF fileExists
               THEN /\ fileContent' = Serialize(format, heap[config])
                    /\ fileMtime' \in Times
                    /\ UNCHANGED fileExists
               ELSE UNCHANGED fileVars
    /\ IF fgOp = "save_assign" /\ format \in Supported
       THEN /\ LET ret == ReturnConfig(heap, config)
               IN  fgRef' = ret.ref /\ heap' = Gc(ret.heap, {config, ret.ref})
            /\ pc' = [pc EXCEPT !["fg"] = "assign"]
            /\ UNCHANGED <<fgKey, fgKeys, fgVal>>
       ELSE /\ fgRef' = 0
            /\ heap' = Gc(heap, {config})
            /\ pc' = [pc EXCEPT !["fg"] = "idle"]
            /\ fgKey' = <<>> /\ fgKeys' = <<>> /\ fgVal' = ""
    /\ UNCHANGED <<format, hot_reloading, config, last_modified_time, content, wVars, fgOp, extLeft, opsLeft>>

\* the assignment of save()[key] = value, in the mapping save() returned: the key is
\* one key of that dict, nothing is split
AssignReturned ==
    /\ pc["fg"] = "assign"
    /\ heap' = Gc([heap EXCEPT ![fgRef] = Assign(heap[fgRef], <<fgKey>>, fgVal)], {config})
    /\ fgRef' = 0
    /\ pc' = [pc EXCEPT !["fg"] = "idle"]
    /\ fgKey' = <<>> /\ fgKeys' = <<>> /\ fgVal' = ""
    /\ UNCHANGED <<format, hot_reloading, fileVars, config, last_modified_time, content, wVars, fgOp, fgResult,
                   extLeft, opsLeft>>

\* load() called by the application
CallLoad ==
    /\ CanCall
    /\ fgOp' = "load" /\ fgKey' = <<>> /\ fgVal' = "" /\ fgKeys' = <<>>
    /\ fgResult' = NoneResult
    /\ opsLeft' = opsLeft - 1
    /\ pc' = [pc EXCEPT !["fg"] = "load_exists"]
    /\ UNCHANGED <<format, hot_reloading, fileVars, heap, config, last_modified_time, content, wVars, fgRef, extLeft>>

\* lines 157-160 of get(*keys), line 190 of __getitem__: self.config is read once
CallGet(keys) ==
    /\ CanCall
    /\ fgOp' = "get" /\ fgKey' = <<>> /\ fgVal' = "" /\ fgKeys' = keys
    /\ fgRef' = config
    /\ fgResult' = NoneResult
    /\ opsLeft' = opsLeft - 1
    /\ pc' = [pc EXCEPT !["fg"] = "walk"]
    /\ UNCHANGED <<format, hot_reloading, fileVars, heap, config, last_modified_time, content, wVars, extLeft>>

CallGetItem(key) ==
    /\ CanCall
    /\ fgOp' = "getitem" /\ fgKey' = key /\ fgVal' = "" /\ fgKeys' = <<>>
    /\ fgRef' = config
    /\ fgResult' = NoneResult
    /\ opsLeft' = opsLeft - 1
    /\ pc' = [pc EXCEPT !["fg"] = "walk"]
    /\ UNCHANGED <<format, hot_reloading, fileVars, heap, config, last_modified_time, content, wVars, extLeft>>

\* lines 161-167 of get(*keys), lines 192-195 of __getitem__: the walk through the
\* dict that was read, and the return
LookupReturn ==
    /\ pc["fg"] = "walk"
    /\ fgResult' = IF fgOp = "get" THEN Get(heap[fgRef], fgKeys) ELSE GetItem(heap[fgRef], fgKey)
    /\ fgRef' = 0
    /\ heap' = Gc(heap, {config})
    /\ pc' = [pc EXCEPT !["fg"] = "idle"]
    /\ fgKey' = <<>> /\ fgKeys' = <<>> /\ fgVal' = ""
    /\ UNCHANGED <<format, hot_reloading, fileVars, config, last_modified_time, content, wVars, fgOp, extLeft,
                   opsLeft>>

Call ==
    \/ \E key \in SetKeys, value \in SetValues : CallSet(key, value)
    \/ CallSave
    \/ \E key \in AssignKeys, value \in AssignValues : CallSaveAssign(key, value)
    \/ CallLoad
    \/ \E keys \in GetKeys : CallGet(keys)
    \/ \E key \in GetItemKeys : CallGetItem(key)

\* the steps of a call under way
FgStep == StartHotReloading \/ LoadStep("fg") \/ SaveOpen \/ SaveWrite \/ AssignReturned \/ LookupReturn

\* ---------------------------------------------------------------- other processes
ExternalWrite(c, t) ==
    /\ extLeft > 0
    /\ extLeft' = extLeft - 1
    /\ fileExists' = TRUE
    /\ fileContent' = c
    /\ fileMtime' = t
    /\ UNCHANGED <<format, hot_reloading, heap, config, last_modified_time, pc, content, wVars, callVars, fgRef,
                   fgResult, opsLeft>>

ExternalDelete ==
    /\ extLeft > 0
    /\ fileExists
    /\ extLeft' = extLeft - 1
    /\ fileExists' = FALSE
    /\ fileContent' = EmptyContent
    /\ fileMtime' = 0
    /\ UNCHANGED <<format, hot_reloading, heap, config, last_modified_time, pc, content, wVars, callVars, fgRef,
                   fgResult, opsLeft>>

External ==
    \/ \E c \in ExternalContents(format), t \in Times : ExternalWrite(c, t)
    \/ ExternalDelete

\* ---------------------------------------------------------------- specifications
Next == Construct \/ Call \/ FgStep \/ WatcherStep \/ External

Spec == Init /\ [][Next]_vars

\* the monitor thread is a daemon thread the interpreter keeps scheduling, and a call
\* under way runs on; nothing obliges the application to call or other processes to write
FairSpec == Spec /\ WF_vars(WatcherStep) /\ WF_vars(FgStep)

\* ---------------------------------------------------------------- the ENV text
\* The text save() writes for ENV and load_env() reads back, character by character.
\* str.strip() removes these from both ends
Whitespace == {" ", "\n"}

RECURSIVE LStrip(_)
LStrip(s) == IF s # <<>> /\ s[1] \in Whitespace THEN LStrip(Tail(s)) ELSE s

RECURSIVE RStrip(_)
RStrip(s) == IF s # <<>> /\ s[Len(s)] \in Whitespace THEN RStrip(SubSeq(s, 1, Len(s) - 1)) ELSE s

\* line.strip()
Strip(s) == RStrip(LStrip(s))

\* for line in file: the lines of the text, each with its "\n"
RECURSIVE FileLines(_)
FileLines(text) ==
    IF text = <<>>
    THEN <<>>
    ELSE IF \A i \in 1..Len(text) : text[i] # "\n"
         THEN <<text>>
         ELSE LET i == CHOOSE n \in 1..Len(text) : text[n] = "\n" /\ \A j \in 1..(n - 1) : text[j] # "\n"
              IN  <<SubSeq(text, 1, i)>> \o FileLines(SubSeq(text, i + 1, Len(text)))

\* s.split("=", 1)
SplitOnce(s) ==
    IF \A i \in 1..Len(s) : s[i] # "="
    THEN <<s>>
    ELSE LET i == CHOOSE n \in 1..Len(s) : s[n] = "=" /\ \A j \in 1..(n - 1) : s[j] # "="
         IN  <<SubSeq(s, 1, i - 1), SubSeq(s, i + 1, Len(s))>>

\* the loop of load_env: blank lines and lines starting with "#" are skipped, the
\* others are stripped and split at the first "="; a line without "=" fails to unpack
RECURSIVE EnvWalk(_, _)
EnvWalk(lines, cfg) ==
    IF lines = <<>>
    THEN [ok |-> TRUE, doc |-> cfg, exc |-> "none"]
    ELSE LET line == Head(lines)
         IN  IF Strip(line) # <<>> /\ line[1] # "#"
             THEN LET kv == SplitOnce(Strip(line))
                  IN  IF Len(kv) = 2
                      THEN EnvWalk(Tail(lines), Assign(cfg, <<kv[1]>>, kv[2]))
                      ELSE [ok |-> FALSE, doc |-> EmptyDoc,
                            exc |-> "ValueError: not enough values to unpack"]
             ELSE EnvWalk(Tail(lines), cfg)

load_env(text) == EnvWalk(FileLines(text), EmptyDoc)

\* for key, value in self.config.items(): f.write(f"{key}={value}\n"), the keys of the
\* flat Document d taken in the order items() gives them
RECURSIVE EnvText(_, _)
EnvText(d, order) ==
    IF order = <<>>
    THEN <<>>
    ELSE Head(order) \o <<"=">> \o d[<<Head(order)>>] \o <<"\n">> \o EnvText(d, Tail(order))

\* ---------------------------------------------------------------- save, then a fresh Instance
\* The Documents put in the first Instance: flat, string keys, string values
RtKeys == {<<"k">>, <<"j">>}

RtValues == {<<"v">>, <<>>, <<" ", "v">>, <<"v", " ">>}

RtDocs == UNION {[{<<k>> : k \in ks} -> RtValues] : ks \in SUBSET RtKeys}

\* the orders items() can give the keys of d in: every order they can have been put in
ItemOrders(d) ==
    {o \in UNION {[1..n -> RtKeys] : n \in 0..Cardinality(RtKeys)} :
        /\ Len(o) = Cardinality(DOMAIN d)
        /\ \A k \in RtKeys : <<k>> \in DOMAIN d => \E i \in 1..Len(o) : o[i] = k}

\* an Instance without hot reloading whose Document the application has filled, by
\* save()[key] = value as tests.py does; the file is not written yet
RtInit ==
    /\ format \in Supported
    /\ hot_reloading = FALSE
    /\ fileExists = FALSE /\ fileContent = EmptyContent /\ fileMtime = 0
    /\ \E d \in RtDocs : heap = [r \in Refs |-> IF r = 1 THEN d ELSE EmptyDoc]
    /\ config = 1
    /\ last_modified_time = 0
    /\ pc = [t \in Threads |-> IF t = "fg" THEN "idle" ELSE "off"]
    /\ content = [t \in Threads |-> EmptyContent]
    /\ current_modified_time = 0
    /\ wLast = 0
    /\ wExc = "none"
    /\ fgOp = "none"
    /\ fgKey = <<>>
    /\ fgKeys = <<>>
    /\ fgVal = ""
    /\ fgRef = 0
    /\ fgResult = NoneResult
    /\ extLeft = 0
    /\ opsLeft = 0

\* save() of the first Instance, lines 110-117: JSON as json.dump gives it, ENV as text
RtSave ==
    /\ fgOp = "none"
    /\ fgOp' = "save"
    /\ fileExists' = TRUE
    /\ fileMtime' = 1
    /\ IF format = "JSON"
       THEN fileContent' = SaveJSON(heap[config])
       ELSE \E order \in ItemOrders(heap[config]) :
                fileContent' = [kind |-> "text", text |-> EnvText(heap[config], order)]
    /\ fgResult' = ValueAt(heap[config], <<>>)
    /\ UNCHANGED <<format, hot_reloading, heap, config, last_modified_time, pc, content, wVars,
                   fgKey, fgKeys, fgVal, fgRef, extLeft, opsLeft>>

\* Instance(file, format) once more on the file just saved: __init__ and its load(),
\* lines 12-18 and 47-57; the new Instance's Document is a new dict
RtFresh ==
    /\ fgOp = "save"
    /\ fgOp' = "init"
    /\ last_modified_time' = fileMtime
    /\ LET r == IF format = "JSON" THEN Parse(format, fileContent) ELSE load_env(fileContent.text)
       IN  /\ heap' = [heap EXCEPT ![2] = r.doc]
           /\ config' = 2
           /\ fgResult' = IF r.ok THEN NoneResult ELSE ExcResult(r.exc)
           /\ pc' = [pc EXCEPT !["fg"] = IF r.ok THEN "idle" ELSE "failed"]
    /\ UNCHANGED <<format, hot_reloading, fileVars, content, wVars, fgKey, fgKeys, fgVal, fgRef,
                   extLeft, opsLeft>>

RtNext == RtSave \/ RtFresh

RoundTripSpec == RtInit /\ [][RtNext]_vars

\* ---------------------------------------------------------------- __setitem__ on a Document
\* The Documents __setitem__ is applied to: every tree over these paths, each entry a
\* scalar or a dict, the entries above an entry being dicts
SetPaths ==
    {<<KeyA>>, <<KeyA, <<"b">>>>, <<KeyA, <<"b">>, <<"c">>>>, <<KeyA, <<"s">>>>, <<<<"s">>>>}

SetDocs ==
    {d \in UNION {[ps -> {MapV, "x1"}] : ps \in SUBSET SetPaths} :
        \A p \in DOMAIN d :
            Len(p) > 1 => (SubSeq(p, 1, Len(p) - 1) \in DOMAIN d /\ d[SubSeq(p, 1, Len(p) - 1)] = MapV)}

PathKeys == {KeyA, DottedAB, DottedABC}

\* an Instance without hot reloading that holds the Document d and has made no call
SetInit ==
    /\ format \in Supported
    /\ hot_reloading = FALSE
    /\ fileExists = FALSE /\ fileContent = EmptyContent /\ fileMtime = 0
    /\ \E d \in SetDocs : heap = [r \in Refs |-> IF r = 1 THEN d ELSE EmptyDoc]
    /\ config = 1
    /\ last_modified_time = 0
    /\ pc = [t \in Threads |-> IF t = "fg" THEN "idle" ELSE "off"]
    /\ content = [t \in Threads |-> EmptyContent]
    /\ current_modified_time = 0
    /\ wLast = 0
    /\ wExc = "none"
    /\ fgOp = "none"
    /\ fgKey = <<>>
    /\ fgKeys = <<>>
    /\ fgVal = ""
    /\ fgRef = 0
    /\ fgResult = NoneResult
    /\ extLeft = 0
    /\ opsLeft = 1

\* instance[key] = value, and the save() it ends with
SetNext ==
    \/ \E key \in PathKeys, value \in SetValues : CallSet(key, value)
    \/ SaveOpen
    \/ SaveWrite

SetSpec == SetInit /\ [][SetNext]_vars

\* ---------------------------------------------------------------- claims
\* the file holds a text the Instance's codec rejects
Malformed == fileContent.kind = "garbage" \/ (format = "JSON" /\ fileContent.kind = "empty")

\* monitor's load() is about to parse a text its codec rejects
WatcherReadMalformed ==
    /\ format \in Supported
    /\ pc["w"] = "load_parse"
    /\ content["w"].kind = "garbage" \/ (format = "JSON" /\ content["w"].kind = "empty")

ParseFailures == {"JSONDecodeError", "ValueError: not enough values to unpack"}

\* C1: when monitor's reload reads a text that does not parse, the step that fails
\* leaves self.config and the dict it refers to as they were, and nothing of the
\* foreground changes: no exception reaches the caller, its call goes on
C1_FailedReloadKeepsDocument ==
    [][(WatcherReadMalformed /\ pc'["w"] # pc["w"])
        => /\ config' = config
           /\ heap'[config] = heap[config]
           /\ fgResult' = fgResult
           /\ pc'["fg"] = pc["fg"]]_vars

\* monitor failed on a malformed file and the Instance still holds the Document it
\* loaded before, here the one another process had written
C1_Witness ==
    /\ wExc \in ParseFailures
    /\ fileExists /\ fileContent = Garbage
    /\ config # 0
    /\ heap[config] \in ExternalDocs
    /\ fgResult.exc = "none"

\* the file is text c, stamped t
FileIs(c, t) == fileExists /\ fileContent = c /\ fileMtime = t

\* C2: with hot reloading on and monitor not in the middle of a poll (it sleeps, or
\* its thread has ended), once the file holds a valid text whose timestamp is not the
\* recorded one, the parse of that text comes to be the Document (or the file has
\* been replaced again before), with no load() call asked of the application
C2_ExternalWriteIsPublished ==
    \A fmt \in Supported, d \in ExternalDocs, t \in Times :
        (/\ hot_reloading /\ pc["w"] \in {"sleep", "dead"} /\ format = fmt
         /\ FileIs(Serialize(fmt, d), t) /\ t # last_modified_time)
            ~> ((config # 0 /\ heap[config] = d) \/ ~FileIs(Serialize(fmt, d), t))

\* C3: a reload that failed on a malformed file ends that poll only: a valid text
\* written afterwards with another timestamp is still loaded and published
C3_WatcherSurvivesFailedReload ==
    \A fmt \in Supported, d \in ExternalDocs, t \in Times :
        (/\ wExc \in ParseFailures /\ format = fmt
         /\ FileIs(Serialize(fmt, d), t) /\ t # last_modified_time)
            ~> ((config # 0 /\ heap[config] = d) \/ ~FileIs(Serialize(fmt, d), t))

\* C4: when __setitem__'s save() serializes, self.config is still the dict that
\* __setitem__ assigned the value in
C4_SetSavesTheDocumentItMutated ==
    (fgOp = "set" /\ pc["fg"] = "save_write") => config = fgRef

\* C5: no step of monitor changes a dict that exists: the Document a running get()
\* or __getitem__ read stays as it was read, and the Document of the Instance changes
\* only by self.config being given another dict
C5_ReloadReplacesWholeDocument ==
    [][(pc["w"] # "off" /\ pc'["w"] # pc["w"])
        => /\ fgRef # 0 => (fgRef' = fgRef /\ heap'[fgRef] = heap[fgRef])
           /\ config' = config => heap'[config] = heap[config]]_vars

\* a reload published another Document while a lookup holds the one it read
C5_Witness ==
    /\ pc["fg"] = "walk"
    /\ config # fgRef
    /\ heap[config] # heap[fgRef]
    /\ heap[config] \in ExternalDocs

\* __setitem__ returns to its caller, with the file it opened still there
SetReturns ==
    /\ fgOp = "set" /\ pc["fg"] = "save_write" /\ pc'["fg"] = "idle"
    /\ fgResult'.exc = "none"
    /\ fileExists

\* C6: when __setitem__ returns, the file holds the serialization of the Instance's
\* Document and that Document holds the value at the path
C6_SetIsPersistedOnReturn ==
    [][SetReturns
        => /\ fileExists'
           /\ fileContent' = Serialize(format, heap'[config'])
           /\ Split(fgKey) \in DOMAIN heap'[config']
           /\ heap'[config'][Split(fgKey)] = fgVal]_vars

\* C7: with a format the code does not know, construction fails before anything is
\* asked of the file: the foreground never gets past the entry of load(), no Instance
\* comes to exist, no timestamp is read
C7_UnknownFormatFailsBeforeIO ==
    format \notin Supported
        => /\ pc["fg"] \in {"new", "load_exists", "failed"}
           /\ pc["fg"] = "failed" => fgResult.exc = UnsupportedExc
           /\ last_modified_time = 0

\* the path a lookup under way resolves
LookupPath == IF fgOp = "get" THEN fgKeys ELSE Split(fgKey)

LookupReturns == pc["fg"] = "walk" /\ pc'["fg"] = "idle" /\ LookupPath # <<>>

\* C8: a lookup of a path never raises, and returns None when a segment of the path
\* is missing from the Document or an intermediate value is no dict
C8_LookupNeverRaises ==
    [][LookupReturns
        => /\ fgResult'.exc = "none"
           /\ LookupPath \notin DOMAIN heap[fgRef] => fgResult' = NoneResult]_vars

\* C9: when instance["a.b.c"] = x returns, instance["a.b.c"] is x and instance["a.b"]
\* is a dict with the key "c"
C9_GetAfterSet ==
    [][(SetReturns /\ fgKey = DottedABC)
        => LET d == heap'[config']
           IN  /\ GetItem(d, DottedABC).exc = "none"
               /\ GetItem(d, DottedABC).kind = "scalar"
               /\ GetItem(d, DottedABC).scalar = fgVal
               /\ GetItem(d, DottedAB).kind = "dict"
               /\ <<<<"c">>>> \in DOMAIN GetItem(d, DottedAB).dict]_vars

\* C10: when monitor's reload fails to parse, self.last_modified_time is what it was
\* when monitor compared it, the application having called no load() meanwhile
C10_FailedReloadKeepsTimestamp ==
    [][(WatcherReadMalformed /\ pc'["w"] # pc["w"] /\ fgOp # "load")
        => last_modified_time' = wLast]_vars

\* the foreground's load() tests os.path.exists and the file is not there
LoadsAbsentFile == pc["fg"] = "load_exists" /\ ~fileExists /\ pc'["fg"] # pc["fg"]

\* C11: a load() of the foreground (in __init__ or called by the application) that
\* finds no file returns without an exception, leaves an empty dict as the Document,
\* so that get() gives an empty mapping, and leaves self.last_modified_time as it was
C11_LoadOfAbsentFile ==
    [][LoadsAbsentFile
        => /\ pc'["fg"] \in {"init_start", "idle"}
           /\ fgResult'.exc = "none"
           /\ heap'[config'] = EmptyDoc
           /\ Get(heap'[config'], <<>>).kind = "dict"
           /\ Get(heap'[config'], <<>>).dict = EmptyDoc
           /\ last_modified_time' = last_modified_time]_vars

\* the application's load() returned after the file it had loaded was deleted: the
\* Document is empty and the timestamp recorded at construction is still there
C11_Witness ==
    /\ fgOp = "load" /\ pc["fg"] = "idle"
    /\ ~fileExists
    /\ fgResult.exc = "none"
    /\ heap[config] = EmptyDoc
    /\ last_modified_time # 0

\* C12: after save() of an Instance whose Document is flat with string keys and string
\* values, a new Instance made on the same file with the same format is constructed
\* without an exception and its Document equals the one that was saved
C12_SaveThenFreshLoad ==
    fgOp = "init" => (fgResult.exc = "none" /\ heap[2] = heap[1])

\* save() returns without an exception
SaveReturns == pc["fg"] = "save_write" /\ pc'["fg"] # "save_write" /\ fgResult'.exc = "none"

\* C13: with no monitor thread, save() truncates the file, writes the serialization
\* of the Document in the file its open left empty, leaves self.config and the dict
\* as they were and returns that very dict; the value assigned in the returned
\* mapping is then what a lookup on the Instance gives
C13_SaveReturnsTheDocument ==
    [][~hot_reloading
        => /\ (pc["fg"] = "save_open" /\ pc'["fg"] = "save_write")
                => (fileExists' /\ fileContent' = EmptyContent /\ heap' = heap /\ config' = config)
           /\ SaveReturns
                => /\ config' = config
                   /\ heap'[config] = heap[config]
                   /\ fgResult'.kind = "dict"
                   /\ fgResult'.dict = heap[config]
                   /\ pc'["fg"] = "assign" => fgRef' = config
                   /\ (fileExists /\ fileContent = EmptyContent)
                        => fileContent' = Serialize(format, heap[config])
           /\ (pc["fg"] = "assign" /\ pc'["fg"] = "idle")
                => /\ config' = config
                   /\ Get(heap'[config], <<fgKey>>).kind = "scalar"
                   /\ Get(heap'[config], <<fgKey>>).scalar = fgVal]_vars

\* save()["a"] = "v2" and then save(), with no monitor thread: the Document holds the
\* value and the file holds the serialization of that Document
C13_Witness ==
    /\ ~hot_reloading
    /\ fgOp = "save" /\ pc["fg"] = "idle" /\ fgResult.exc = "none"
    /\ config # 0
    /\ <<KeyA>> \in DOMAIN heap[config]
    /\ heap[config][<<KeyA>>] \in AssignValues
    /\ fileExists
    /\ fileContent = Serialize(format, heap[config])

\* monitor asks the timestamp of the file, or opens it, and the file has gone since
\* os.path.exists answered
WatcherMeetsMissingFile ==
    /\ pc["w"] \in {"getmtime", "load_getmtime", "load_open"}
    /\ ~fileExists
    /\ pc'["w"] # pc["w"]

\* C14: when a poll of monitor meets an I/O failure, the failure is swallowed: monitor
\* goes back to sleep for its next poll, the Document is as it was, and nothing of the
\* foreground changes
C14_WatcherSurvivesIOFailure ==
    [][WatcherMeetsMissingFile
        => /\ pc'["w"] = "sleep"
           /\ wExc' = "none"
           /\ config' = config
           /\ heap'[config] = heap[config]
           /\ fgResult' = fgResult
           /\ pc'["fg"] = pc["fg"]]_vars

\* the foreground enters __setitem__ and walks the levels
SetWalks == pc["fg"] = "idle" /\ pc'["fg"] = "save_open" /\ fgOp' = "set"

\* C15: after the walk of instance[k1.k2...kn] = value, the Document holds value at the
\* path and a dict at every proper prefix of it; every entry that is neither on the
\* path nor below it is as it was, and nothing else has come into the Document
C15_SetCreatesOrReplacesLevels ==
    [][SetWalks
        => LET path == Split(fgKey')
               d    == heap[config]
               d2   == heap'[config]
               kept == {p \in DOMAIN d : ~IsPrefix(p, path) /\ ~IsPrefix(path, p)}
               pre  == {SubSeq(path, 1, i) : i \in 1..(Len(path) - 1)}
           IN  /\ config' = config
               /\ path \in DOMAIN d2 /\ d2[path] = fgVal'
               /\ \A q \in pre : q \in DOMAIN d2 /\ d2[q] = MapV
               /\ \A p \in kept : p \in DOMAIN d2 /\ d2[p] = d[p]
               /\ DOMAIN d2 = kept \cup pre \cup {path}]_vars

\* instance["a.b.c"] = "v1" has gone through a.b, and the entries beside the path, "s"
\* at the top and "s" under "a", are still there
C15_Witness ==
    /\ fgOp = "set" /\ pc["fg"] = "save_open" /\ fgKey = DottedABC
    /\ heap[config][<<KeyA, <<"b">>, <<"c">>>>] = "v1"
    /\ <<<<"s">>>> \in DOMAIN heap[config]
    /\ <<KeyA, <<"s">>>> \in DOMAIN heap[config]
    /\ heap[config][<<KeyA, <<"s">>>>] = "x1"

\* monitor has read the timestamp of the file and compares it
WatcherCompares == pc["w"] = "compare" /\ pc'["w"] # "compare"

\* C16: in a poll that found the file, monitor enters load() exactly when the
\* timestamp it read differs from self.last_modified_time, be it larger or smaller;
\* when they are equal the poll ends there and nothing of the Instance has changed
C16_ChangeTestIsInequality ==
    [][WatcherCompares
        => /\ pc'["w"] = "load_exists" <=> current_modified_time # last_modified_time
           /\ current_modified_time = last_modified_time
                => /\ pc'["w"] = "sleep"
                   /\ config' = config
                   /\ heap' = heap
                   /\ last_modified_time' = last_modified_time]_vars

\* monitor reloads a file whose timestamp is smaller than the recorded one
C16_Witness ==
    /\ pc["w"] = "load_exists"
    /\ current_modified_time # 0
    /\ current_modified_time < wLast

\* monitor's load() reads the file while save() of the foreground has emptied it
\* (line 110) and not yet written it
WatcherReadsMidSave ==
    /\ pc["w"] = "load_open" /\ pc'["w"] = "load_parse"
    /\ pc["fg"] = "save_write"
    /\ fileExists /\ fileContent = EmptyContent

\* C17: monitor publishes no Document parsed from a file that save() is rewriting.
\* Its load() publishes what it read as soon as that parses, so: what it reads between
\* save()'s truncation and save()'s write is never a text that parses
C17_NoReloadOfHalfWrittenFile ==
    [][WatcherReadsMidSave => ~Parse(format, content'["w"]).ok]_vars

\* other processes have stopped writing and the foreground has stopped calling
Quiet == extLeft = 0 /\ opsLeft = 0 /\ pc["fg"] = "idle"

\* the Instance holds what the file holds, and has recorded the file's timestamp
Converged ==
    /\ last_modified_time = fileMtime
    /\ config # 0
    /\ Parse(format, fileContent).ok
    /\ heap[config] = Parse(format, fileContent).doc

\* C18: with hot reloading on, once the writes and the calls have stopped (the last
\* call having left no assignment unsaved) and the file holds a text that parses, the
\* Instance comes to hold the parse of the file with the file's timestamp recorded,
\* and stays so
C18_WatcherConverges ==
    (/\ hot_reloading /\ format \in Supported
     /\ Quiet /\ fgOp # "save_assign"
     /\ fileExists /\ Parse(format, fileContent).ok)
        ~> []Converged

====
